---- MODULE Spec2Model ----
(***************************************************************************)
(* Destination drivers of buildable-connections and their lifecycle        *)
(* proxies: the BigQuery driver (src/unnamed/part_000), the Xero driver    *)
(* (src/catalog/destinations/xero/xero.ts) and the search driver, of which *)
(* only the test is part of the sources.                                   *)
(*                                                                         *)
(* Every driver method is an operator from a machine record m (the         *)
(* driver's fields plus what the call has done so far) to the machine      *)
(* record after the method, with the outcome of every remote request drawn *)
(* from env.  An action of the state machine is one top-level call made by *)
(* the host: a method called on a driver object, or a member access on a   *)
(* proxied driver followed by the call of what the access returned.        *)
(***************************************************************************)
EXTENDS Integers, Sequences, FiniteSets, TLC

VARIABLES
  dest,       \* which destination the driver is: "bigquery", "xero", "search"
  mode,       \* how the host reaches it: "driver" (the class) or "proxy" (the factory)
  config,     \* the static configuration given to the constructor or factory
  client,     \* the driver's client field
  tenantIds,  \* the Xero driver's tenantIds field
  last,       \* the last top-level call: its inputs, its trace and its outcome
  calls       \* the proxied calls in flight, each at one of its await points

vars == <<dest, mode, config, client, tenantIds, last, calls>>

----------------------------------------------------------------------------
(* Bounds *)

\* number of keys of a column-to-value mapping passed as `set`
MaxSetKeys == 2

\* number of tenants the connections endpoint reports
MaxTenants == 2

\* number of keys of a value encoded for a RECORD field
MaxRecordKeys == 3

\* number of calls made through one proxy before the first of them settles
MaxConcurrent == 2

----------------------------------------------------------------------------
(* JavaScript values *)

V_undefined == [t |-> "undefined"]

V_null == [t |-> "null"]

\* a string is the sequence of its pieces of text: single characters where
\* the code looks at characters, longer tokens elsewhere, never an empty piece
Str(cs) == [t |-> "string", chars |-> cs]

Num(s) == [t |-> "number", text |-> s]

Obj(es) == [t |-> "object", entries |-> es]

Arr(xs) == [t |-> "array", items |-> xs]

Error(msg) == [t |-> "Error", msg |-> msg]

\* errors the runtime or a vendor library raises, told apart by class
TypeError == [t |-> "TypeError"]

SyntaxError == [t |-> "SyntaxError"]

RemoteError(what) == [t |-> "RemoteError", what |-> what]

\* !v
Falsy(v) ==
  \/ v.t \in {"undefined", "null"}
  \/ v.t = "string" /\ v.chars = <<>>
  \/ v.t = "number" /\ v.text = "0"

\* v.length
Length(v) ==
  CASE v.t = "string" -> Len(v.chars)
    [] v.t = "array" -> Len(v.items)
    [] OTHER -> 0

----------------------------------------------------------------------------
(* The machine record: the driver's fields and the trace of one call *)

Machine(c, t) ==
  [client |-> c, tenantIds |-> t,
   invoked |-> <<>>,   \* driver methods entered, in order
   remote |-> <<>>,    \* requests sent to the vendor, in order
   logged |-> <<>>,    \* console.log lines
   opened |-> <<>>,    \* vendor clients constructed, in order
   access |-> "direct", \* what a proxy's get trap did: "throw", "value", "callable"
   kind |-> "return",  \* how the last method ended: "return" or "throw"
   val |-> V_undefined]

Enter(m, name) == [m EXCEPT !.invoked = Append(@, name)]

Return(m, v) == [m EXCEPT !.kind = "return", !.val = v]

Throw(m, e) == [m EXCEPT !.kind = "throw", !.val = e]

Send(m, req) == [m EXCEPT !.remote = Append(@, req)]

Log(m, line) == [m EXCEPT !.logged = Append(@, line)]

\* this.client = new <vendor client>(...)
Open(m, c) == [m EXCEPT !.client = c, !.opened = Append(@, c)]

----------------------------------------------------------------------------
(* Text conversions *)

RECURSIVE Join(_, _)
\* Array.prototype.join on an array of strings
Join(xs, sep) ==
  IF xs = <<>> THEN ""
  ELSE IF Len(xs) = 1 THEN xs[1]
  ELSE xs[1] \o sep \o Join(Tail(xs), sep)

\* `${v}` in a template literal
Interpolate(v) ==
  CASE v.t = "string" -> Join(v.chars, "")
    [] v.t = "number" -> v.text
    [] v.t = "null" -> "null"
    [] v.t = "undefined" -> "undefined"
    [] v.t = "array" -> Join([i \in 1..Len(v.items) |-> Join(v.items[i].chars, "")], ",")
    [] OTHER -> "[object Object]"

RECURSIVE JSONstringify(_)
\* JSON.stringify of a string, a number, null or a plain object
JSONstringify(v) ==
  CASE v.t = "string" -> "\"" \o Join(v.chars, "") \o "\""
    [] v.t = "number" -> v.text
    [] v.t = "null" -> "null"
    [] v.t = "object" ->
         "{" \o Join([i \in 1..Len(v.entries) |->
                        "\"" \o v.entries[i][1] \o "\":"
                          \o JSONstringify(v.entries[i][2])], ",") \o "}"
    [] OTHER -> "undefined"

\* the service-account keys of the model, as the JSON text the host passes
KeyA == Str(<<"{\"sa\":\"A\"}">>)

KeyB == Str(<<"{\"sa\":\"B\"}">>)

KeyBad == Str(<<"not-json">>)

\* JSON.parse: the parsed value, or the SyntaxError it throws
JSONparse(v) ==
  CASE v = KeyA -> [ok |-> TRUE, val |-> Obj(<<<<"sa", Str(<<"A">>)>>>>)]
    [] v = KeyB -> [ok |-> TRUE, val |-> Obj(<<<<"sa", Str(<<"B">>)>>>>)]
    [] OTHER -> [ok |-> FALSE, val |-> SyntaxError]

\* Object.entries: the [key, value] pairs in property order, or a TypeError
ObjectEntries(v) ==
  CASE v.t = "object" -> [ok |-> TRUE, entries |-> v.entries]
    [] v.t = "string" ->
         [ok |-> TRUE,
          entries |-> [i \in 1..Len(v.chars) |->
                         <<ToString(i - 1),
                           Str(<<v.chars[i]>>)>>]]
    [] v.t \in {"undefined", "null"} -> [ok |-> FALSE, entries |-> <<>>]
    [] OTHER -> [ok |-> TRUE, entries |-> <<>>]

----------------------------------------------------------------------------
(* BigQuery: schema-directed encoding *)

Field(n, ty, fs) == [t |-> "field", name |-> n, type |-> ty, fields |-> fs]

\* Array.prototype.find by field name
FindField(fields, name) ==
  IF \E i \in 1..Len(fields) : fields[i].name = name
  THEN fields[CHOOSE i \in 1..Len(fields) :
                /\ fields[i].name = name
                /\ \A j \in 1..(i - 1) : fields[j].name # name]
  ELSE V_undefined

Rendered(s) == [ok |-> TRUE, text |-> s, err |-> V_undefined]

Failed(e) == [ok |-> FALSE, text |-> "", err |-> e]

RECURSIVE parseValue_lenient(_, _)
parseValue_lenient(value, fieldSchema) ==
  IF fieldSchema.t = "undefined" THEN Failed(TypeError)
  ELSE
  CASE fieldSchema.type \in {"STRING", "DATE", "TIME", "DATETIME", "GEOGRAPHY"} ->
         Rendered("\"" \o Interpolate(value) \o "\"")
    [] fieldSchema.type = "TIMESTAMP" ->
         Rendered("timestamp(\"" \o Interpolate(value) \o "\")")
    [] fieldSchema.type = "JSON" ->
         Rendered("JSON '" \o JSONstringify(value) \o "'")
    [] fieldSchema.type = "BYTES" ->
         Rendered("CAST(\"" \o Interpolate(value) \o "\" as BYTES)")
    [] fieldSchema.type = "RECORD" ->
         LET es == ObjectEntries(value)
             n == Len(es.entries)
             values == [i \in 1..n |->
                          parseValue_lenient(es.entries[i][2],
                                             FindField(fieldSchema.fields, es.entries[i][1]))]
             bad == {i \in 1..n : ~values[i].ok}
         IN  IF ~es.ok THEN Failed(TypeError)
             ELSE IF bad # {}
               THEN Failed(values[CHOOSE i \in bad : \A j \in bad : i <= j].err)
             ELSE Rendered("STRUCT(" \o Join([i \in 1..n |-> values[i].text], ",") \o ")")
    [] OTHER -> Rendered(Interpolate(value))

RECURSIVE parseValue_schemaOrder(_, _)
parseValue_schemaOrder(value, fieldSchema) ==
  IF fieldSchema.t = "undefined" THEN Failed(TypeError)
  ELSE
  CASE fieldSchema.type \in {"INTEGER", "FLOAT", "NUMERIC", "BIGNUMERIC", "BOOLEAN"} ->
         Rendered(Interpolate(value))
    [] fieldSchema.type \in {"STRING", "DATE", "TIME", "DATETIME", "GEOGRAPHY"} ->
         Rendered("\"" \o Interpolate(value) \o "\"")
    [] fieldSchema.type = "TIMESTAMP" ->
         Rendered("timestamp(\"" \o Interpolate(value) \o "\")")
    [] fieldSchema.type = "JSON" ->
         Rendered("JSON '" \o JSONstringify(value) \o "'")
    [] fieldSchema.type = "BYTES" ->
         Rendered("CAST(\"" \o Interpolate(value) \o "\" as BYTES)")
    [] fieldSchema.type = "RECORD" ->
         LET es == ObjectEntries(value)
             declared == SelectSeq(fieldSchema.fields,
                           LAMBDA f : \E i \in 1..Len(es.entries) : es.entries[i][1] = f.name)
             n == Len(declared)
             values == [i \in 1..n |->
                          parseValue_schemaOrder(
                            es.entries[CHOOSE k \in 1..Len(es.entries) :
                                         es.entries[k][1] = declared[i].name][2],
                            declared[i])]
             bad == {i \in 1..n : ~values[i].ok}
         IN  IF ~es.ok THEN Failed(TypeError)
             ELSE IF \E i \in 1..Len(es.entries) :
                       FindField(fieldSchema.fields, es.entries[i][1]) = V_undefined
               THEN Failed(TypeError)
             ELSE IF bad # {}
               THEN Failed(values[CHOOSE i \in bad : \A j \in bad : i <= j].err)
             ELSE Rendered("STRUCT(" \o Join([i \in 1..n |-> values[i].text], ",") \o ")")
    [] OTHER -> Failed(Error("Unknown type: " \o fieldSchema.type))

RECURSIVE parseValue(_, _)
parseValue(value, fieldSchema) ==
  IF fieldSchema.t = "undefined" THEN Failed(TypeError)
  ELSE
  CASE fieldSchema.type \in {"INTEGER", "FLOAT", "NUMERIC", "BIGNUMERIC", "BOOLEAN"} ->
         Rendered(Interpolate(value))
    [] fieldSchema.type \in {"STRING", "DATE", "TIME", "DATETIME", "GEOGRAPHY"} ->
         Rendered("\"" \o Interpolate(value) \o "\"")
    [] fieldSchema.type = "TIMESTAMP" ->
         Rendered("timestamp(\"" \o Interpolate(value) \o "\")")
    [] fieldSchema.type = "JSON" ->
         Rendered("JSON '" \o JSONstringify(value) \o "'")
    [] fieldSchema.type = "BYTES" ->
         Rendered("CAST(\"" \o Interpolate(value) \o "\" as BYTES)")
    [] fieldSchema.type = "RECORD" ->
         LET es == ObjectEntries(value)
             n == Len(es.entries)
             values == [i \in 1..n |->
                          parseValue(es.entries[i][2],
                                     FindField(fieldSchema.fields, es.entries[i][1]))]
             bad == {i \in 1..n : ~values[i].ok}
         IN  IF ~es.ok THEN Failed(TypeError)
             ELSE IF bad # {}
               THEN Failed(values[CHOOSE i \in bad : \A j \in bad : i <= j].err)
             ELSE Rendered("STRUCT(" \o Join([i \in 1..n |-> values[i].text], ",") \o ")")
    [] OTHER -> Failed(Error("Unknown type: " \o fieldSchema.type))

extractChangeset_partial(set, schema) ==
  IF set.t = "string" THEN Rendered(Interpolate(set))
  ELSE IF set.t = "array" THEN Rendered(Join([i \in 1..Len(set.items) |-> Interpolate(set.items[i])], ","))
  ELSE
    LET es == ObjectEntries(set)
        known == SelectSeq(es.entries,
                           LAMBDA e : FindField(schema.fields, e[1]).t # "undefined")
        n == Len(known)
        changeset == [i \in 1..n |->
                        LET pv == parseValue(known[i][2], FindField(schema.fields, known[i][1]))
                        IN  IF pv.ok THEN Rendered(known[i][1] \o "=" \o pv.text) ELSE pv]
        bad == {i \in 1..n : ~changeset[i].ok}
    IN  IF ~es.ok THEN Failed(TypeError)
        ELSE IF bad # {}
          THEN Failed(changeset[CHOOSE i \in bad : \A j \in bad : i <= j].err)
        ELSE Rendered(Join([i \in 1..n |-> changeset[i].text], ","))

extractChangeset(set, schema) ==
  IF set.t = "string" THEN Rendered(Interpolate(set))
  ELSE IF set.t = "array" THEN Rendered(Join([i \in 1..Len(set.items) |-> Interpolate(set.items[i])], ","))
  ELSE
    LET es == ObjectEntries(set)
        n == Len(es.entries)
        changeset == [i \in 1..n |->
                        LET key == es.entries[i][1]
                            keySchema == FindField(schema.fields, key)
                        IN  IF keySchema.t = "undefined"
                            THEN Failed(Error("Schema-altering update"))
                            ELSE LET pv == parseValue(es.entries[i][2], keySchema)
                                 IN  IF pv.ok THEN Rendered(key \o "=" \o pv.text) ELSE pv]
        bad == {i \in 1..n : ~changeset[i].ok}
    IN  IF ~es.ok THEN Failed(TypeError)
        ELSE IF bad # {}
          THEN Failed(changeset[CHOOSE i \in bad : \A j \in bad : i <= j].err)
        ELSE Rendered(Join([i \in 1..n |-> changeset[i].text], ","))

----------------------------------------------------------------------------
(* BigQuery driver *)

NotEstablished == Error("Connection to BigQuery not established")

BigQueryClient(saKey) == [t |-> "client", credentials |-> saKey]

\* this.GOOGLE_SERVICE_ACCOUNT_KEY is cfg.GOOGLE_SERVICE_ACCOUNT_KEY of the
\* constructor; cfg is the static configuration of the driver
BQ_connect(m, cfg, payload) ==
  LET m1 == Enter(m, "connect")
      text == IF payload.t # "undefined" /\ ~Falsy(payload.GOOGLE_SERVICE_ACCOUNT_KEY)
              THEN payload.GOOGLE_SERVICE_ACCOUNT_KEY
              ELSE cfg.GOOGLE_SERVICE_ACCOUNT_KEY
      saKey == JSONparse(text)
  IN  IF ~saKey.ok THEN Throw(m1, saKey.val)
      ELSE Return(Open(m1, BigQueryClient(saKey.val)), V_undefined)

BQ_disconnect(m) ==
  Return([Enter(m, "disconnect") EXCEPT !.client = V_null], V_undefined)

TestResult(ok, msg) == [t |-> "TestConnection", success |-> ok, message |-> msg]

BQ_testConnection(m, env) ==
  LET m1 == Enter(m, "testConnection")
      m2 == Send(m1, [req |-> "query", verb |-> "SELECT"])
  IN  IF Falsy(m1.client) THEN Throw(m1, NotEstablished)
      ELSE IF env.query = "reject" THEN Throw(m2, RemoteError("query"))
      ELSE IF env.query = "falsy"
        THEN Return(m2, TestResult(FALSE, "Could not establish connection to BigQuery"))
      ELSE Return(m2, TestResult(TRUE, "Connection established successfully"))

BQ_insertData_throwing(m, p, env) ==
  LET m1 == Enter(m, "insertData")
      m2 == Send(m1, [req |-> "table.get", verb |-> "GET"])
      m3 == Send(m2, [req |-> "table.insert", verb |-> "INSERT"])
  IN  IF Falsy(m1.client) THEN Throw(m1, NotEstablished)
      ELSE IF ~env.get THEN Throw(m2, RemoteError("table.get"))
      ELSE IF ~env.insert THEN Throw(m3, RemoteError("table.insert"))
      ELSE Return(m3, [t |-> "InsertResponse"])

BQ_insertData_unguarded(m, p, env) ==
  LET m1 == Enter(m, "insertData")
      m2 == Send(m1, [req |-> "table.get", verb |-> "GET"])
      m3 == Send(m2, [req |-> "table.insert", verb |-> "INSERT"])
  IN  IF Falsy(m1.client) THEN Throw(m1, TypeError)
      ELSE IF ~env.get THEN Return(Log(m2, "table not found"), V_null)
      ELSE IF ~env.insert THEN Return(Log(m3, "Schema-altering action"), V_null)
      ELSE Return(m3, [t |-> "InsertResponse"])

BQ_insertData(m, p, env) ==
  LET m1 == Enter(m, "insertData")
      m2 == Send(m1, [req |-> "table.get", verb |-> "GET"])
      m3 == Send(m2, [req |-> "table.insert", verb |-> "INSERT"])
  IN  IF Falsy(m1.client) THEN Throw(m1, NotEstablished)
      ELSE IF ~env.get THEN Return(Log(m2, "table not found"), V_null)
      ELSE IF ~env.insert THEN Return(Log(m3, "Schema-altering action"), V_null)
      ELSE Return(m3, [t |-> "InsertResponse"])

BQ_updateData_unguarded(m, p, env) ==
  LET m1 == Enter(m, "updateData")
      m2 == Send(m1, [req |-> "table.getMetadata", verb |-> "GET"])
      changeset == extractChangeset(p.set, env.schema)
      m3 == Send(m2, [req |-> "query", verb |-> "UPDATE"])
  IN  IF Falsy(m1.client) THEN Throw(m1, NotEstablished)
      ELSE IF ~env.meta THEN Throw(m2, RemoteError("table.getMetadata"))
      ELSE IF ~changeset.ok THEN Throw(m2, changeset.err)
      ELSE IF ~env.update THEN Throw(m3, RemoteError("query"))
      ELSE Return(m3, [t |-> "QueryResponse"])

BQ_updateData(m, p, env) ==
  LET m1 == Enter(m, "updateData")
      m2 == Send(m1, [req |-> "table.getMetadata", verb |-> "GET"])
      changeset == extractChangeset(p.set, env.schema)
      m3 == Send(m2, [req |-> "query", verb |-> "UPDATE",
                      set |-> changeset.text, where |-> Interpolate(p.filters)])
  IN  IF Falsy(m1.client) THEN Throw(m1, NotEstablished)
      ELSE IF Falsy(p.filters) \/ Length(p.filters) = 0
        THEN Throw(m1, Error("BigQuery UPDATE must have a WHERE clause"))
      ELSE IF ~env.meta THEN Throw(m2, RemoteError("table.getMetadata"))
      ELSE IF ~changeset.ok THEN Throw(m2, changeset.err)
      ELSE IF ~env.update THEN Throw(m3, RemoteError("query"))
      ELSE Return(m3, [t |-> "QueryResponse"])

BQ_deleteData(m, p, env) ==
  LET m1 == Enter(m, "deleteData")
      m2 == Send(m1, [req |-> "query", verb |-> "DELETE",
                      where |-> Interpolate(p.filters)])
  IN  IF Falsy(m1.client) THEN Throw(m1, NotEstablished)
      ELSE IF Falsy(p.filters) \/ Length(p.filters) = 0
        THEN Throw(m1, Error("BigQuery DELETE must have a WHERE clause"))
      ELSE IF ~env.delete THEN Throw(m2, RemoteError("query"))
      ELSE Return(m2, V_undefined)

\* Object.prototype.toString, which every driver object inherits
Object_toString(m) == Return(Enter(m, "toString"), Str(<<"[object Object]">>))

\* the members of a BigQueryDriver whose typeof is "function"
BQ_Functions ==
  {"connect", "disconnect", "testConnection", "insertData", "updateData",
   "deleteData", "toString"}

\* driver[prop](payload)
BQ_call(m, cfg, prop, payload, env) ==
  CASE prop = "connect" -> BQ_connect(m, cfg, payload)
    [] prop = "disconnect" -> BQ_disconnect(m)
    [] prop = "testConnection" -> BQ_testConnection(m, env)
    [] prop = "insertData" -> BQ_insertData(m, payload, env)
    [] prop = "updateData" -> BQ_updateData(m, payload, env)
    [] prop = "deleteData" -> BQ_deleteData(m, payload, env)
    [] OTHER -> Object_toString(m)

\* the get trap of the proxy and the call of the function it returns
BQ_getProxyDriver_nodisconnect(m, cfg, prop, payload, env) ==
  LET connected == BQ_connect([m EXCEPT !.access = "callable"], cfg, V_undefined)
      result == BQ_call(connected, cfg, prop, payload, env)
  IN  IF prop \notin BQ_Functions
      THEN Throw([m EXCEPT !.access = "throw"], Error("Method " \o prop \o " not found"))
      ELSE IF connected.kind = "throw" THEN Log(connected, "Error occurred ===> ")
      ELSE IF result.kind = "throw" THEN Log(result, "Error occurred ===> ")
      ELSE result

BQ_getProxyDriver_anyprop(m, cfg, prop, payload, env) ==
  LET connected == BQ_connect([m EXCEPT !.access = "callable"], cfg, V_undefined)
      result == BQ_call(connected, cfg, prop, payload, env)
      disconnected == BQ_disconnect(result)
  IN  IF connected.kind = "throw" THEN Log(connected, "Error occurred ===> ")
      ELSE IF result.kind = "throw" THEN Log(result, "Error occurred ===> ")
      ELSE Return(disconnected, result.val)

BQ_getProxyDriver_finally(m, cfg, prop, payload, env) ==
  LET connected == BQ_connect([m EXCEPT !.access = "callable"], cfg, V_undefined)
      result == BQ_call(connected, cfg, prop, payload, env)
      disconnected == BQ_disconnect(result)
  IN  IF prop \notin BQ_Functions
      THEN Throw([m EXCEPT !.access = "throw"], Error("Method " \o prop \o " not found"))
      ELSE IF connected.kind = "throw" THEN Log(connected, "Error occurred ===> ")
      ELSE IF result.kind = "throw"
        THEN Throw(Log(disconnected, "Error occurred ===> "), result.val)
      ELSE Return(disconnected, result.val)

BQ_getProxyDriver(m, cfg, prop, payload, env) ==
  LET connected == BQ_connect([m EXCEPT !.access = "callable"], cfg, V_undefined)
      result == BQ_call(connected, cfg, prop, payload, env)
      disconnected == BQ_disconnect(result)
  IN  IF prop \notin BQ_Functions
      THEN Throw([m EXCEPT !.access = "throw"], Error("Method " \o prop \o " not found"))
      ELSE IF connected.kind = "throw" THEN Log(connected, "Error occurred ===> ")
      ELSE IF result.kind = "throw" THEN Log(result, "Error occurred ===> ")
      ELSE Return(disconnected, result.val)

----------------------------------------------------------------------------
(* Xero driver *)

XeroClient(id) == [t |-> "client", clientId |-> id]

\* a || b
Or(a, b) == IF Falsy(a) THEN b ELSE a

\* cfg is the static configuration the driver was constructed with
Xero_connect(m, cfg, payload, env) ==
  LET m1 == Enter(m, "connect")
      m2 == Open(m1, XeroClient(Or(payload.XERO_CLIENT_ID, cfg.XERO_CLIENT_ID)))
      m3 == Send(m2, [req |-> "connections", verb |-> "GET"])
  IN  IF payload.t = "undefined" THEN Throw(m1, TypeError)
      ELSE IF payload.oauth2.t = "undefined" THEN Throw(m1, TypeError)
      ELSE IF env.connections = "reject" THEN Throw(m3, RemoteError("connections"))
      ELSE Return([m3 EXCEPT !.tenantIds = Arr(env.tenants)], V_undefined)

Xero_disconnect(m) ==
  Return([Enter(m, "disconnect") EXCEPT !.tenantIds = Arr(<<>>), !.client = V_null],
         V_undefined)

Xero_testConnection(m, env) ==
  LET m1 == Enter(m, "testConnection")
      tenant == IF m1.tenantIds.items = <<>> THEN "undefined" ELSE m1.tenantIds.items[1]
      m2 == Send(m1, [req |-> "accounting", verb |-> "getAccounts", tenant |-> tenant])
      failure == TestResult(FALSE, "Could not establish connection to Xero")
  IN  IF Falsy(m1.client) \/ m1.tenantIds.t = "undefined" THEN Return(m1, failure)
      ELSE IF env.query = "reject" THEN Return(m2, failure)
      ELSE Return(m2, TestResult(TRUE, "Connection established successfully"))

RECURSIVE Split(_, _)
\* String.prototype.split on a separator that is one piece of the string
Split(cs, sep) ==
  IF cs = <<>> THEN <<"">>
  ELSE IF Head(cs) = sep THEN <<"">> \o Split(Tail(cs), sep)
  ELSE LET rest == Split(Tail(cs), sep)
       IN  <<Head(cs) \o rest[1]>> \o Tail(rest)

\* the functions of client.accountingApi the model knows, each with the
\* parameter names its source text declares
AccountingApi ==
  [getAccounts |-> <<"xeroTenantId", "where">>,
   getOrganisations |-> <<"xeroTenantId">>]

\* params[param]
Property(obj, name) ==
  IF \E i \in 1..Len(obj.entries) : obj.entries[i][1] = name
  THEN obj.entries[CHOOSE i \in 1..Len(obj.entries) : obj.entries[i][1] = name][2]
  ELSE V_undefined

\* responses[key] = value
Assign(entries, key, value) ==
  IF \E i \in 1..Len(entries) : entries[i][1] = key
  THEN [i \in 1..Len(entries) |->
          IF entries[i][1] = key THEN <<key, value>> ELSE entries[i]]
  ELSE Append(entries, <<key, value>>)

Body(method, tenantId) == [t |-> "body", of |-> method, tenant |-> tenantId]

\* err.response of a failed request: the HTTP response when the vendor
\* answered with an error status, undefined when no response arrived
ErrResponse(outcome, method, tenantId) ==
  IF outcome = "http"
  THEN [t |-> "errorResponse", of |-> method, tenant |-> tenantId]
  ELSE V_undefined

RECURSIVE Xero_fanOut_abort(_, _, _, _, _, _)
Xero_fanOut_abort(m, responses, tenants, method, params, env) ==
  IF tenants = <<>> THEN Return(m, Obj(responses))
  ELSE
    LET tenantId == Head(tenants)
        methodParams == AccountingApi[method]
        args == [i \in 1..Len(methodParams) |->
                   IF methodParams[i] = "xeroTenantId" THEN Str(<<tenantId>>)
                   ELSE Property(params, methodParams[i])]
        m1 == Send(m, [req |-> "accounting", verb |-> method, tenant |-> tenantId,
                       args |-> args])
    IN  IF params.t = "undefined" /\ \E i \in 1..Len(methodParams) :
                                        methodParams[i] # "xeroTenantId"
        THEN Throw(m, TypeError)
        ELSE IF env.outcome[tenantId] = "ok"
          THEN Xero_fanOut_abort(m1, Assign(responses, tenantId, Body(method, tenantId)),
                                 Tail(tenants), method, params, env)
        ELSE Return(m1, Obj(Assign(responses, tenantId,
                                   ErrResponse(env.outcome[tenantId], method, tenantId))))

RECURSIVE Xero_fanOut(_, _, _, _, _, _)
\* the loop over this.tenantIds
Xero_fanOut(m, responses, tenants, method, params, env) ==
  IF tenants = <<>> THEN Return(m, Obj(responses))
  ELSE
    LET tenantId == Head(tenants)
        methodParams == AccountingApi[method]
        args == [i \in 1..Len(methodParams) |->
                   IF methodParams[i] = "xeroTenantId" THEN Str(<<tenantId>>)
                   ELSE Property(params, methodParams[i])]
        m1 == Send(m, [req |-> "accounting", verb |-> method, tenant |-> tenantId,
                       args |-> args])
        response == IF env.outcome[tenantId] = "ok" THEN Body(method, tenantId)
                    ELSE ErrResponse(env.outcome[tenantId], method, tenantId)
    IN  IF params.t = "undefined" /\ \E i \in 1..Len(methodParams) :
                                        methodParams[i] # "xeroTenantId"
        THEN Throw(m, TypeError)
        ELSE Xero_fanOut(m1, Assign(responses, tenantId, response),
                         Tail(tenants), method, params, env)

RECURSIVE Xero_iterate(_, _, _, _, _, _)
\* the loop from the top of an iteration to the await of its request, or to
\* the return after the last iteration: a null client makes the call
\* expression throw a TypeError, the catch stores err.response, which a
\* TypeError does not have, and the loop goes on without awaiting
Xero_iterate(m, responses, tenants, reads, method, params) ==
  IF tenants = <<>>
  THEN [m |-> Return(m, Obj(responses)), responses |-> responses, rest |-> <<>>,
        reads |-> reads]
  ELSE
    LET tenantId == Head(tenants)
        methodParams == AccountingApi[method]
        args == [i \in 1..Len(methodParams) |->
                   IF methodParams[i] = "xeroTenantId" THEN Str(<<tenantId>>)
                   ELSE Property(params, methodParams[i])]
    IN  IF Falsy(m.client)
        THEN Xero_iterate(m, Assign(responses, tenantId, V_undefined), Tail(tenants),
                          Append(reads, m.client), method, params)
        ELSE [m |-> Send(m, [req |-> "accounting", verb |-> method, tenant |-> tenantId,
                             args |-> args]),
              responses |-> responses, rest |-> tenants,
              reads |-> Append(reads, m.client)]

Xero_performAction(m, prop, params, env) ==
  LET m1 == Enter(m, "performAction")
      parts == Split(IF prop.t = "string" THEN prop.chars ELSE <<Interpolate(prop)>>, ".")
      api == parts[1]
      method == IF Len(parts) >= 2 THEN parts[2] ELSE "undefined"
  IN  IF prop.t \in {"undefined", "null"} THEN Throw(m1, TypeError)
      ELSE IF api # "accounting"
        THEN Throw(m1, Error("API " \o api \o " for Xero not found"))
      ELSE IF Falsy(m1.client) THEN Throw(m1, TypeError)
      ELSE IF method \notin DOMAIN AccountingApi
        THEN Throw(m1, Error("Method " \o Interpolate(prop) \o "() for Xero not found"))
      ELSE IF m1.tenantIds.t = "undefined" THEN Throw(m1, TypeError)
      ELSE Xero_fanOut(m1, <<>>, m1.tenantIds.items, method, params, env)

\* the members of a XeroDriver whose typeof is "function"
Xero_Functions == {"connect", "disconnect", "testConnection", "performAction", "toString"}

\* the get trap of the proxy and the call of the function it returns
Xero_getProxyDriver(m, cfg, prop, payload, params, env) ==
  LET called == [m EXCEPT !.access = "callable"]
      connected == Xero_connect(called, cfg, Or(cfg, payload), env)
      result == Xero_performAction(connected, payload, params, env)
      disconnected == Xero_disconnect(result)
  IN  IF prop = "tenantIds" THEN Return([m EXCEPT !.access = "value"], m.tenantIds)
      ELSE IF prop = "client" THEN Return([m EXCEPT !.access = "value"], m.client)
      ELSE IF prop \notin Xero_Functions
        THEN Throw([m EXCEPT !.access = "throw"], Error("Method " \o prop \o "() not found"))
      ELSE IF prop = "connect" THEN Xero_connect(called, cfg, Or(payload, cfg), env)
      ELSE IF prop = "disconnect" THEN Xero_disconnect(called)
      ELSE IF prop = "testConnection" THEN Xero_testConnection(called, env)
      ELSE IF connected.kind = "throw" THEN Log(connected, "Error occurred ===> ")
      ELSE IF result.kind = "throw" THEN Log(result, "Error occurred ===> ")
      ELSE Return(disconnected, result.val)

----------------------------------------------------------------------------
(* Search driver: its source is not part of the sources, the lifecycle is *)
(* the one the specification gives for every destination                  *)

SearchClient(node) == [t |-> "client", node |-> node]

Search_connect(m, cfg) ==
  Return(Open(Enter(m, "connect"), SearchClient(cfg.ELASTIC_SEARCH_URI)), V_undefined)

Search_disconnect(m) ==
  Return([Enter(m, "disconnect") EXCEPT !.client = V_null], V_undefined)

Search_testConnection(m, env) ==
  LET m1 == Enter(m, "testConnection")
      m2 == Send(m1, [req |-> "ping", verb |-> "GET"])
  IN  IF Falsy(m1.client) \/ env.query = "reject"
      THEN Return(m1, TestResult(FALSE, "Could not establish connection"))
      ELSE Return(m2, TestResult(TRUE, "Connection established successfully"))

Search_Actions == {"index", "update", "delete", "bulk"}

Search_action(m, prop, payload, env) ==
  LET m1 == Enter(m, prop)
      m2 == Send(m1, [req |-> prop, verb |-> prop])
  IN  IF Falsy(m1.client) THEN Throw(m1, Error("Connection not established"))
      ELSE IF env.query = "reject" THEN Throw(m2, RemoteError(prop))
      ELSE Return(m2, [t |-> "SearchResponse", of |-> prop])

Search_getProxyDriver(m, cfg, prop, payload, env) ==
  LET called == [m EXCEPT !.access = "callable"]
      connected == Search_connect(called, cfg)
      result == Search_action(connected, prop, payload, env)
      disconnected == Search_disconnect(result)
  IN  IF prop = "connect" THEN Search_connect(called, cfg)
      ELSE IF prop = "disconnect" THEN Search_disconnect(called)
      ELSE IF prop = "testConnection" THEN Search_testConnection(called, env)
      ELSE IF prop \notin Search_Actions
        THEN Throw([m EXCEPT !.access = "throw"], Error("Method " \o prop \o " not found"))
      ELSE IF result.kind = "throw" THEN Log(result, "Error occurred ===> ")
      ELSE Return(disconnected, result.val)

----------------------------------------------------------------------------
(* Inputs *)

Injective(f) == \A i, j \in DOMAIN f : i # j => f[i] # f[j]

BQ_Configs == {[t |-> "config", GOOGLE_SERVICE_ACCOUNT_KEY |-> k] : k \in {KeyA, KeyBad}}

BQ_ConnectPayloads ==
  {V_undefined} \cup
  {[t |-> "config", GOOGLE_SERVICE_ACCOUNT_KEY |-> k] : k \in {KeyB, KeyBad, V_undefined}}

Filters == {V_undefined, Str(<<>>), Str(<<"id=1">>)}

\* the remote table: columns a, b, r of supported types, c of a type the
\* encoder does not know
TableSchema ==
  [t |-> "schema",
   fields |-> <<Field("a", "INTEGER", <<>>), Field("b", "STRING", <<>>),
                Field("c", "INTERVAL", <<>>),
                Field("r", "RECORD", <<Field("n", "INTEGER", <<>>),
                                       Field("s", "STRING", <<>>)>>)>>]

\* the value the host sets each column to; zzz is not a column of the table
ColumnValue ==
  [a |-> Num("42"), c |-> Num("7"),
   r |-> Obj(<<<<"n", Num("1")>>, <<"s", Str(<<"y">>)>>>>),
   zzz |-> Num("1")]

Mappings ==
  {Obj([i \in DOMAIN ks |-> <<ks[i], ColumnValue[ks[i]]>>]) :
     ks \in {f \in UNION {[1..n -> DOMAIN ColumnValue] : n \in 0..MaxSetKeys} :
               Injective(f)}}

Sets ==
  {Str(<<"a=1">>), Arr(<<Str(<<"a=1">>), Str(<<"b=\"x\"">>)>>)} \cup Mappings

\* the requests of one call and how the remote side answers each: at most
\* one request of a call fails
BQ_Envs(prop) ==
  {e \in [get : IF prop = "insertData" THEN BOOLEAN ELSE {TRUE},
          insert : IF prop = "insertData" THEN BOOLEAN ELSE {TRUE},
          meta : IF prop = "updateData" THEN BOOLEAN ELSE {TRUE},
          update : IF prop = "updateData" THEN BOOLEAN ELSE {TRUE},
          delete : IF prop = "deleteData" THEN BOOLEAN ELSE {TRUE},
          query : IF prop = "testConnection" THEN {"ok", "reject", "falsy"} ELSE {"ok"},
          schema : {TableSchema}] :
     (e.get \/ e.insert) /\ (e.meta \/ e.update)}

BQ_Payloads(prop) ==
  CASE prop = "connect" -> BQ_ConnectPayloads
    [] prop = "insertData" ->
         {[t |-> "insert", dataset |-> "ds", table |-> "tbl", data |-> "rows"],
          [t |-> "insert", dataset |-> "ds", table |-> "tbl", data |-> "rows",
           GOOGLE_SERVICE_ACCOUNT_KEY |-> KeyB]}
    [] prop = "updateData" ->
         [t : {"update"}, dataset : {"ds"}, table : {"tbl"}, filters : Filters, set : Sets]
    [] prop = "deleteData" ->
         [t : {"delete"}, dataset : {"ds"}, table : {"tbl"}, filters : Filters]
    [] prop \in BQ_Functions -> {V_undefined}
    [] OTHER -> {V_undefined, Obj(<<>>)}

\* member names the host accesses on a proxied BigQuery driver
BQ_Props == BQ_Functions \cup {"client", "GCP_PROJECT_ID", "nope"}

OAuth2 == [t |-> "oauth2", redirectUri |-> "uri", resolved |-> "tokenSet"]

Xero_Configs ==
  {[t |-> "config", XERO_CLIENT_ID |-> Str(<<"idA">>), oauth2 |-> o] :
     o \in {OAuth2, V_undefined}}

Xero_ConnectPayloads ==
  {V_undefined} \cup
  [t : {"config"}, XERO_CLIENT_ID : {V_undefined, Str(<<"idB">>)},
   oauth2 : {OAuth2, V_undefined}]

Xero_ActionNames ==
  {Str(<<"accounting", ".", "getAccounts">>),
   Str(<<"accounting", ".", "getOrganisations">>),
   Str(<<"accounting", ".", "nope">>),
   Str(<<"payroll", ".", "getEmployees">>),
   Str(<<"accounting">>)}

Xero_Params == {V_undefined, Obj(<<<<"where", Str(<<"Status==ACTIVE">>)>>>>)}

TenantId(i) == "t" \o ToString(i)

Tenants == {TenantId(i) : i \in 1..MaxTenants}

\* what the connections endpoint can report: the first n tenants
TenantLists == {[i \in 1..n |-> TenantId(i)] : n \in 0..MaxTenants}

Outcomes == {"ok", "http", "net"}

\* the outcome of the accounting request of every tenant of the list ts;
\* no request is made for the others
OutcomesOf(ts) ==
  {o \in [Tenants -> Outcomes] :
     \A x \in Tenants : (\A i \in 1..Len(ts) : ts[i] # x) => o[x] = "ok"}

Xero_ConnectEnvs ==
  {[connections |-> "reject", tenants |-> <<>>, query |-> "ok",
    outcome |-> [x \in Tenants |-> "ok"]]}
  \cup {[connections |-> "ok", tenants |-> ts, query |-> "ok",
         outcome |-> [x \in Tenants |-> "ok"]] : ts \in TenantLists}

\* the environment of a call that connects and then runs an action
Xero_ConnectActionEnvs ==
  Xero_ConnectEnvs \cup
  UNION {{[connections |-> "ok", tenants |-> ts, query |-> "ok", outcome |-> o] :
            o \in OutcomesOf(ts)} : ts \in TenantLists}

\* the environment of a call made on the driver as it is
Xero_Envs(prop, ts) ==
  CASE prop = "connect" -> Xero_ConnectEnvs
    [] prop = "testConnection" ->
         {[connections |-> "ok", tenants |-> <<>>, query |-> q,
           outcome |-> [x \in Tenants |-> "ok"]] : q \in {"ok", "reject"}}
    [] prop = "performAction" ->
         {[connections |-> "ok", tenants |-> <<>>, query |-> "ok", outcome |-> o] :
            o \in OutcomesOf(IF ts.t = "array" THEN ts.items ELSE <<>>)}
    [] OTHER -> {[connections |-> "ok", tenants |-> <<>>, query |-> "ok",
                  outcome |-> [x \in Tenants |-> "ok"]]}

\* member names the host accesses on a proxied Xero driver
Xero_Props ==
  Xero_Functions \cup {"client", "tenantIds", "accounting.getAccounts", "nope"}

Xero_ProxyPayloads(prop) ==
  CASE prop = "connect" -> Xero_ConnectPayloads
    [] prop = "performAction" ->
         Xero_ActionNames \cup
         {[t |-> "config", XERO_CLIENT_ID |-> Str(<<"idB">>), oauth2 |-> OAuth2]}
    [] prop = "toString" -> {Str(<<"accounting", ".", "getAccounts">>)}
    [] prop \in Xero_Functions -> {V_undefined}
    [] OTHER -> {V_undefined, Obj(<<>>)}

Xero_ProxyParams(prop) ==
  IF prop = "performAction" THEN Xero_Params
  ELSE IF prop = "toString" THEN {Obj(<<>>)}
  ELSE {V_undefined}

Xero_ProxyEnvs(prop, ts) ==
  IF prop \in {"performAction", "toString"} THEN Xero_ConnectActionEnvs
  ELSE Xero_Envs(prop, ts)

Search_Configs == {[t |-> "config", ELASTIC_SEARCH_URI |-> "https://localhost:9200"]}

Search_Props == {"connect", "disconnect", "testConnection", "nope"} \cup Search_Actions

Search_Envs == {[query |-> q] : q \in {"ok", "reject"}}

----------------------------------------------------------------------------
(* The state machine *)

NoCall ==
  Machine(V_null, V_undefined) @@
  [via |-> "none", prop |-> "", payload |-> V_undefined, params |-> V_undefined,
   env |-> [none |-> TRUE], pre |-> [client |-> V_null, tenantIds |-> V_undefined]]

Calls == 1..MaxConcurrent

\* a proxied call the host has not made yet
Idle ==
  [pc |-> "idle",                        \* the await the call is suspended at
   m |-> Machine(V_null, V_undefined),   \* what the call has done so far
   pending |-> Machine(V_null, V_undefined), \* what the awaited method will have done
   reads |-> <<>>,                       \* the values of this.client the action read
   over |-> <<>>,                        \* the array the loop iterates
   rest |-> <<>>,                        \* its tenants from the one in flight on
   responses |-> <<>>]                   \* the responses object of performAction

\* the driver as the constructor leaves it: BigQueryDriver initialises
\* client to null, XeroDriver declares its fields without a value
Init ==
  /\ dest \in {"bigquery", "xero", "search"}
  /\ mode \in {"driver", "proxy"}
  /\ dest = "search" => mode = "proxy"
  /\ config \in CASE dest = "bigquery" -> BQ_Configs
                  [] dest = "xero" -> Xero_Configs
                  [] OTHER -> Search_Configs
  /\ client = IF dest = "bigquery" THEN V_null ELSE V_undefined
  /\ tenantIds = V_undefined
  /\ last = NoCall
  /\ calls = [c \in Calls |-> Idle]

Now == Machine(client, tenantIds)

\* the fields after the call, and the call as the host saw it
Called(m, via, prop, payload, params, env) ==
  /\ client' = m.client
  /\ tenantIds' = m.tenantIds
  /\ last' = [via |-> via, prop |-> prop, payload |-> payload, params |-> params,
              env |-> env, pre |-> [client |-> client, tenantIds |-> tenantIds]] @@ m
  /\ UNCHANGED <<dest, mode, config, calls>>

BigQueryDriver_connect ==
  /\ dest = "bigquery" /\ mode = "driver"
  /\ \E payload \in BQ_Payloads("connect"), env \in BQ_Envs("connect") :
       Called(BQ_connect(Now, config, payload), "driver", "connect", payload,
              V_undefined, env)

BigQueryDriver_disconnect ==
  /\ dest = "bigquery" /\ mode = "driver"
  /\ \E payload \in BQ_Payloads("disconnect"), env \in BQ_Envs("disconnect") :
       Called(BQ_disconnect(Now), "driver", "disconnect", payload,
              V_undefined, env)

BigQueryDriver_testConnection ==
  /\ dest = "bigquery" /\ mode = "driver"
  /\ \E payload \in BQ_Payloads("testConnection"), env \in BQ_Envs("testConnection") :
       Called(BQ_testConnection(Now, env), "driver", "testConnection", payload,
              V_undefined, env)

BigQueryDriver_insertData ==
  /\ dest = "bigquery" /\ mode = "driver"
  /\ \E payload \in BQ_Payloads("insertData"), env \in BQ_Envs("insertData") :
       Called(BQ_insertData(Now, payload, env), "driver", "insertData", payload,
              V_undefined, env)

BigQueryDriver_updateData ==
  /\ dest = "bigquery" /\ mode = "driver"
  /\ \E payload \in BQ_Payloads("updateData"), env \in BQ_Envs("updateData") :
       Called(BQ_updateData(Now, payload, env), "driver", "updateData", payload,
              V_undefined, env)

BigQueryDriver_deleteData ==
  /\ dest = "bigquery" /\ mode = "driver"
  /\ \E payload \in BQ_Payloads("deleteData"), env \in BQ_Envs("deleteData") :
       Called(BQ_deleteData(Now, payload, env), "driver", "deleteData", payload,
              V_undefined, env)

BigQueryProxy_get ==
  /\ dest = "bigquery" /\ mode = "proxy"
  /\ \E prop \in BQ_Props :
       \E payload \in BQ_Payloads(prop), env \in BQ_Envs(prop) :
         Called(BQ_getProxyDriver(Now, config, prop, payload, env), "proxy", prop,
                payload, V_undefined, env)

XeroDriver_connect ==
  /\ dest = "xero" /\ mode = "driver"
  /\ \E payload \in Xero_ConnectPayloads, env \in Xero_Envs("connect", tenantIds) :
       Called(Xero_connect(Now, config, payload, env), "driver", "connect", payload,
              V_undefined, env)

XeroDriver_disconnect ==
  /\ dest = "xero" /\ mode = "driver"
  /\ \E env \in Xero_Envs("disconnect", tenantIds) :
       Called(Xero_disconnect(Now), "driver", "disconnect", V_undefined, V_undefined, env)

XeroDriver_testConnection ==
  /\ dest = "xero" /\ mode = "driver"
  /\ \E env \in Xero_Envs("testConnection", tenantIds) :
       Called(Xero_testConnection(Now, env), "driver", "testConnection", V_undefined,
              V_undefined, env)

XeroDriver_performAction ==
  /\ dest = "xero" /\ mode = "driver"
  /\ \E name \in Xero_ActionNames, params \in Xero_Params,
        env \in Xero_Envs("performAction", tenantIds) :
       Called(Xero_performAction(Now, name, params, env), "driver", "performAction",
              name, params, env)

XeroProxy_get ==
  /\ dest = "xero" /\ mode = "proxy"
  /\ \E prop \in Xero_Props :
       \E payload \in Xero_ProxyPayloads(prop), params \in Xero_ProxyParams(prop),
          env \in Xero_ProxyEnvs(prop, tenantIds) :
         Called(Xero_getProxyDriver(Now, config, prop, payload, params, env), "proxy",
                prop, payload, params, env)

SearchProxy_get ==
  /\ dest = "search" /\ mode = "proxy"
  /\ \E prop \in Search_Props, payload \in {V_undefined, Obj(<<>>)}, env \in Search_Envs :
       Called(Search_getProxyDriver(Now, config, prop, payload, env), "proxy", prop,
              payload, V_undefined, env)

Next ==
  \/ BigQueryDriver_connect
  \/ BigQueryDriver_disconnect
  \/ BigQueryDriver_testConnection
  \/ BigQueryDriver_insertData
  \/ BigQueryDriver_updateData
  \/ BigQueryDriver_deleteData
  \/ BigQueryProxy_get
  \/ XeroDriver_connect
  \/ XeroDriver_disconnect
  \/ XeroDriver_testConnection
  \/ XeroDriver_performAction
  \/ XeroProxy_get
  \/ SearchProxy_get

Spec == Init /\ [][Next]_vars

----------------------------------------------------------------------------
(* Properties *)

DomainActions ==
  CASE dest = "bigquery" -> {"insertData", "updateData", "deleteData"}
    [] dest = "xero" -> {"performAction"}
    [] OTHER -> Search_Actions

LifecycleMethods == {"connect", "disconnect", "testConnection"}

\* the members of the driver behind the proxy whose typeof is "function"
DriverFunctions ==
  CASE dest = "bigquery" -> BQ_Functions
    [] dest = "xero" -> Xero_Functions
    [] OTHER -> LifecycleMethods \cup Search_Actions

HasVerb(remote, verb) == \E i \in 1..Len(remote) : remote[i].verb = verb

\* the last call entered the method prop of a driver that held a client:
\* called on a connected driver, or through the proxy after its connect
EnteredConnected(prop) ==
  /\ last.prop = prop
  /\ \/ last.via = "driver" /\ ~Falsy(last.pre.client)
     \/ last.via = "proxy" /\ Len(last.invoked) >= 2 /\ last.invoked[2] = prop

\* C1: a domain action called through a proxied driver that completes
\* without error has called connect once, then the action once, then
\* disconnect once, and leaves the client handle null; in every reachable
\* state, so after any sequence of earlier calls through the same proxy
C1_ProxiedActionLifecycle ==
  (last.via = "proxy" /\ last.prop \in DomainActions /\ last.kind = "return") =>
    /\ last.invoked = <<"connect", last.prop, "disconnect">>
    /\ client = V_null

\* a proxied Xero action that returned, called after an earlier proxied call
\* had disconnected the driver
C1_Witness ==
  /\ dest = "xero" /\ last.via = "proxy" /\ last.prop = "performAction"
  /\ last.kind = "return" /\ last.pre.client = V_null
  /\ last.invoked = <<"connect", "performAction", "disconnect">>

\* C2: a domain action called on a driver whose client handle is null or was
\* never set fails with the "not established" error and sends no request
C2_NotEstablished ==
  (last.via = "driver" /\ last.prop \in DomainActions /\ Falsy(last.pre.client)) =>
    /\ last.kind = "throw"
    /\ last.val \in {NotEstablished, Error("Connection to Xero not established")}
    /\ last.remote = <<>>

\* C3: updateData and deleteData of a connected BigQuery driver, given empty
\* or undefined filters, fail with the WHERE-clause error and send no request
C3_WhereClauseRequired ==
  \A prop \in {"updateData", "deleteData"} :
    (/\ dest = "bigquery" /\ EnteredConnected(prop)
     /\ (Falsy(last.payload.filters) \/ Length(last.payload.filters) = 0)) =>
      /\ last.kind = "throw"
      /\ last.val = Error(IF prop = "updateData"
                          THEN "BigQuery UPDATE must have a WHERE clause"
                          ELSE "BigQuery DELETE must have a WHERE clause")
      /\ last.remote = <<>>

\* updateData on a connected driver with undefined filters
C3_Witness ==
  /\ dest = "bigquery" /\ EnteredConnected("updateData")
  /\ last.payload.filters = V_undefined
  /\ last.kind = "throw"

\* the set argument of the last updateData is a mapping with a key that is
\* not a column of the schema the call fetched
SetHasAbsentKey ==
  /\ dest = "bigquery" /\ EnteredConnected("updateData")
  /\ ~(Falsy(last.payload.filters) \/ Length(last.payload.filters) = 0)
  /\ last.env.meta
  /\ last.payload.set.t = "object"
  /\ \E i \in 1..Len(last.payload.set.entries) :
       FindField(last.env.schema.fields, last.payload.set.entries[i][1]) = V_undefined

\* C4 as stated: such an updateData fails with the 'Schema-altering update'
\* error whatever the other keys are, and issues no UPDATE query
C4_SchemaAlteringAlways ==
  SetHasAbsentKey =>
    /\ last.kind = "throw"
    /\ last.val = Error("Schema-altering update")
    /\ ~HasVerb(last.remote, "UPDATE")

\* C4 amended: such an updateData fails and issues no UPDATE query; the error
\* is 'Schema-altering update' unless a key that comes before the first
\* absent key has a value its column's type cannot encode, and then it is the
\* encoding error of the first such key
C4_SchemaAlteringNoQuery ==
  SetHasAbsentKey =>
    LET es == last.payload.set.entries
        fields == last.env.schema.fields
        absent == CHOOSE i \in 1..Len(es) :
                    /\ FindField(fields, es[i][1]) = V_undefined
                    /\ \A j \in 1..(i - 1) : FindField(fields, es[j][1]) # V_undefined
        unencodable == {j \in 1..(absent - 1) :
                          ~parseValue(es[j][2], FindField(fields, es[j][1])).ok}
    IN  /\ last.kind = "throw"
        /\ ~HasVerb(last.remote, "UPDATE")
        /\ last.val = IF unencodable = {} THEN Error("Schema-altering update")
                      ELSE LET j == CHOOSE j \in unencodable : \A k \in unencodable : j <= k
                           IN  parseValue(es[j][2], FindField(fields, es[j][1])).err

\* a mapping whose first key is a column and whose second key is not
C4_Witness ==
  /\ SetHasAbsentKey
  /\ Len(last.payload.set.entries) = 2
  /\ last.payload.set.entries[1][1] = "a"
  /\ last.payload.set.entries[2][1] = "zzz"
  /\ last.val = Error("Schema-altering update")

\* C5: insertData of a connected BigQuery driver returns null without
\* throwing when the table's metadata request fails, and then attempts no
\* insert; it returns null without throwing when the insert is rejected
C5_InsertReturnsNull ==
  (dest = "bigquery" /\ EnteredConnected("insertData")) =>
    /\ ~last.env.get =>
         /\ last.kind = "return" /\ last.val = V_null
         /\ ~HasVerb(last.remote, "INSERT")
    /\ (last.env.get /\ ~last.env.insert) =>
         /\ last.kind = "return" /\ last.val = V_null

\* insertData on a connected driver whose target table does not exist
C5_Witness ==
  /\ dest = "bigquery" /\ EnteredConnected("insertData")
  /\ ~last.env.get
  /\ last.val = V_null

\* the tenants the last performAction iterates over: the driver's tenantIds
\* when it was called, or what the proxy's connect has just discovered
FanOutTenants ==
  IF last.via = "driver" THEN last.pre.tenantIds.items ELSE last.env.tenants

\* the last call is performAction for a method of the accounting API, given a
\* params mapping, on a driver that holds a client and a tenant list
EnteredFanOut ==
  /\ dest = "xero" /\ EnteredConnected("performAction")
  /\ last.via = "driver" => last.pre.tenantIds.t = "array"
  /\ last.payload \in {Str(<<"accounting", ".", "getAccounts">>),
                       Str(<<"accounting", ".", "getOrganisations">>)}
  /\ last.params.t = "object"

MethodNotFound ==
  /\ last.access = "throw"
  /\ last.kind = "throw"
  /\ last.val \in {Error("Method " \o last.prop \o " not found"),
                   Error("Method " \o last.prop \o "() not found")}
  /\ last.invoked = <<>>
  /\ last.remote = <<>>

\* C7 as stated: accessing through a proxy any member name that is not a
\* method of the driver fails with the 'method not found' error
C7_NotFoundForEveryNonMethod ==
  (last.via = "proxy" /\ last.prop \notin DriverFunctions) => MethodNotFound

\* C7 amended: accessing through a proxy any member name that is not a method
\* of the driver fails with the 'method not found' error naming the member,
\* for any payload and without calling connect, the action or disconnect,
\* except the names client and tenantIds on the Xero proxy, whose values the
\* proxy returns
C7_NotFoundExceptStateFields ==
  (/\ last.via = "proxy" /\ last.prop \notin DriverFunctions
   /\ ~(dest = "xero" /\ last.prop \in {"client", "tenantIds"})) => MethodNotFound

\* an unknown member accessed on each of two proxies, with a payload at hand
C7_Witness ==
  /\ dest \in {"bigquery", "xero"} /\ last.via = "proxy"
  /\ last.prop = "nope" /\ last.payload = Obj(<<>>)
  /\ MethodNotFound

\* C8: testConnection of a connected BigQuery driver returns a structured
\* result and does not throw when the sample query fails remotely, reporting
\* success = false; it throws only when the driver is not connected
C8_TestConnectionNeverThrows ==
  (dest = "bigquery" /\ last.via = "driver" /\ last.prop = "testConnection") =>
    IF Falsy(last.pre.client) THEN last.kind = "throw"
    ELSE /\ last.kind = "return"
         /\ last.val.t = "TestConnection"
         /\ last.env.query = "reject" => ~last.val.success

\* C9: connect, disconnect and testConnection called through the BigQuery or
\* the Xero proxy call that one driver method alone; after a successful
\* connect through the proxy the driver holds a client handle
C9_LifecycleMethodsUnwrapped ==
  (/\ last.via = "proxy" /\ dest \in {"bigquery", "xero"}
   /\ last.prop \in LifecycleMethods) =>
    /\ last.invoked = <<last.prop>>
    /\ (last.prop = "connect" /\ last.kind = "return") => ~Falsy(client)

\* C10: the member 'accounting.<method>' of the proxied Xero driver, for a
\* method of the accounting API, is a callable that connects, runs the
\* method for the tenants and disconnects; it is not 'method not found'
C10_DottedNameIsCallable ==
  (dest = "xero" /\ last.via = "proxy" /\ last.prop = "accounting.getAccounts") =>
    /\ last.access = "callable"
    /\ Len(last.invoked) >= 1 /\ last.invoked[1] = "connect"
    /\ last.kind = "return" => last.invoked = <<"connect", "performAction", "disconnect">>

----------------------------------------------------------------------------
(* parseValue on its own: the encoder applied to a value and a field schema *)

ScalarTypes ==
  {"INTEGER", "FLOAT", "NUMERIC", "BIGNUMERIC", "BOOLEAN", "STRING", "DATE", "TIME",
   "DATETIME", "GEOGRAPHY", "TIMESTAMP", "JSON", "BYTES"}

\* declared types the switch of parseValue has no case for
OtherTypes == {"INTERVAL", "STRUCT"}

ScalarValues == {Str(<<"x">>), Num("42"), V_null, Obj(<<<<"k", Num("1")>>>>)}

\* a RECORD field of mixed sub-field types, one of them a RECORD
RecordSchema ==
  Field("r", "RECORD",
        <<Field("n", "INTEGER", <<>>), Field("s", "STRING", <<>>),
          Field("in", "RECORD", <<Field("k", "INTEGER", <<>>),
                                  Field("j", "STRING", <<>>)>>),
          Field("u", "INTERVAL", <<>>)>>)

\* the value of each key of a RECORD value; zz names no sub-field
SubValue ==
  [n |-> Num("1"), s |-> Str(<<"y">>),
   in |-> Obj(<<<<"j", Str(<<"z">>)>>, <<"k", Num("2")>>>>),
   u |-> Num("3"), zz |-> Num("9")]

RecordValues ==
  {Obj([i \in DOMAIN ks |-> <<ks[i], SubValue[ks[i]]>>]) :
     ks \in {f \in UNION {[1..n -> DOMAIN SubValue] : n \in 0..MaxRecordKeys} :
               Injective(f)}}
  \cup {V_null, Num("42"), Str(<<"a", "b">>)}

ParseInputs ==
  ({[value |-> v, schema |-> Field("f", ty, <<>>)] :
      v \in ScalarValues, ty \in ScalarTypes \cup OtherTypes})
  \cup {[value |-> v, schema |-> RecordSchema] : v \in RecordValues}

InitParse ==
  /\ dest = "bigquery"
  /\ mode = "driver"
  /\ config = [t |-> "config", GOOGLE_SERVICE_ACCOUNT_KEY |-> KeyA]
  /\ client = V_null
  /\ tenantIds = V_undefined
  /\ last = NoCall
  /\ calls = [c \in Calls |-> Idle]

\* BigQueryDriver.parseValue(value, fieldSchema)
ParseValue_call ==
  \E in \in ParseInputs :
    LET r == parseValue(in.value, in.schema)
    IN  /\ last' = [NoCall EXCEPT !.via = "static", !.prop = "parseValue",
                                  !.payload = in.value, !.params = in.schema,
                                  !.kind = IF r.ok THEN "return" ELSE "throw",
                                  !.val = IF r.ok THEN Str(<<r.text>>) ELSE r.err]
        /\ UNCHANGED <<dest, mode, config, client, tenantIds, calls>>

NextParse == ParseValue_call

SpecParse == InitParse /\ [][NextParse]_vars

\* the literal the table of section 4.2 gives for a scalar type, with the
\* keyword of the BYTES cast written as `as`
DocumentedLiteral(type, value, as) ==
  CASE type \in {"INTEGER", "FLOAT", "NUMERIC", "BIGNUMERIC", "BOOLEAN"} ->
         Interpolate(value)
    [] type \in {"STRING", "DATE", "TIME", "DATETIME", "GEOGRAPHY"} ->
         "\"" \o Interpolate(value) \o "\""
    [] type = "TIMESTAMP" -> "timestamp(\"" \o Interpolate(value) \o "\")"
    [] type = "JSON" -> "JSON '" \o JSONstringify(value) \o "'"
    [] type = "BYTES" -> "CAST(\"" \o Interpolate(value) \o "\" " \o as \o " BYTES)"

ParsedScalar ==
  /\ last.via = "static" /\ last.prop = "parseValue"
  /\ last.params.type # "RECORD"

\* C11 as stated: for a non-RECORD type parseValue returns the documented
\* literal, CAST("value" AS BYTES) for BYTES, and fails with the 'unknown
\* type' error for a type outside the supported set
C11_DocumentedLiterals ==
  ParsedScalar =>
    IF last.params.type \in ScalarTypes
    THEN /\ last.kind = "return"
         /\ last.val = Str(<<DocumentedLiteral(last.params.type, last.payload, "AS")>>)
    ELSE /\ last.kind = "throw"
         /\ last.val = Error("Unknown type: " \o last.params.type)

\* C11 amended: the same, with the BYTES literal spelled CAST("value" as
\* BYTES), its keyword in lower case
C11_LiteralsLowerCaseAs ==
  ParsedScalar =>
    IF last.params.type \in ScalarTypes
    THEN /\ last.kind = "return"
         /\ last.val = Str(<<DocumentedLiteral(last.params.type, last.payload, "as")>>)
    ELSE /\ last.kind = "throw"
         /\ last.val = Error("Unknown type: " \o last.params.type)

\* the string x encoded for a BYTES field
C11_Witness ==
  /\ ParsedScalar
  /\ last.params.type = "BYTES" /\ last.payload = Str(<<"x">>)
  /\ last.val = Str(<<"CAST(\"x\" as BYTES)">>)

\* the last call encoded, for a RECORD field, a mapping whose keys all name
\* sub-fields and whose values all encode under their sub-field's schema
ParsedRecord ==
  /\ last.via = "static" /\ last.prop = "parseValue"
  /\ last.params.type = "RECORD"
  /\ last.payload.t = "object"
  /\ \A i \in 1..Len(last.payload.entries) :
       /\ FindField(last.params.fields, last.payload.entries[i][1]) # V_undefined
       /\ parseValue(last.payload.entries[i][2],
                     FindField(last.params.fields, last.payload.entries[i][1])).ok

\* the rendering of the i-th key's value by the rule of the sub-field of
\* that name
ItemText(i) ==
  parseValue(last.payload.entries[i][2],
             FindField(last.params.fields, last.payload.entries[i][1])).text

\* C12 as stated: a RECORD value renders as STRUCT(field=value,...), one
\* 'field=value' item per key of the value in the value's key order
C12_StructOfNamedItems ==
  ParsedRecord =>
    /\ last.kind = "return"
    /\ last.val = Str(<<"STRUCT("
                        \o Join([i \in 1..Len(last.payload.entries) |->
                                   last.payload.entries[i][1] \o "=" \o ItemText(i)], ",")
                        \o ")">>)

\* C12 amended: a RECORD value renders as STRUCT(value,...), one item per
\* key of the value in the value's key order, each item the rendering of
\* that key's value alone, without the field name
C12_StructOfValues ==
  ParsedRecord =>
    /\ last.kind = "return"
    /\ last.val = Str(<<"STRUCT("
                        \o Join([i \in 1..Len(last.payload.entries) |-> ItemText(i)], ",")
                        \o ")">>)

\* a value with keys s, in, n in an order that is not the schema's, whose in
\* is itself a mapping for a nested RECORD
C12_Witness ==
  /\ ParsedRecord
  /\ Len(last.payload.entries) = 3
  /\ last.payload.entries[1][1] = "s"
  /\ last.payload.entries[2][1] = "in"
  /\ last.payload.entries[3][1] = "n"
  /\ last.val = Str(<<"STRUCT(\"y\",STRUCT(\"z\",2),1)">>)

\* the last call was a domain action through a proxy, and its implicit
\* connect constructed a vendor client
ImplicitConnect ==
  /\ last.via = "proxy" /\ dest \in {"bigquery", "xero"}
  /\ last.prop \in DomainActions
  /\ Len(last.opened) >= 1

\* the caller's payload carries credentials of its own
HasOverride ==
  IF dest = "bigquery" THEN "GOOGLE_SERVICE_ACCOUNT_KEY" \in DOMAIN last.payload
  ELSE last.payload.t = "config"

\* C13: the implicit connect of a proxied domain action builds the client
\* from the static configuration of the factory unless the caller supplies
\* an override payload, and then from the override's credentials
C13_OverrideTakesPrecedence ==
  ImplicitConnect =>
    last.opened[1] =
      IF dest = "bigquery"
      THEN BigQueryClient(JSONparse(IF HasOverride
                                    THEN last.payload.GOOGLE_SERVICE_ACCOUNT_KEY
                                    ELSE config.GOOGLE_SERVICE_ACCOUNT_KEY).val)
      ELSE XeroClient(IF HasOverride THEN last.payload.XERO_CLIENT_ID
                      ELSE config.XERO_CLIENT_ID)

\* the last call ran the try block of a proxy's wrapper
Wrapped ==
  /\ last.via = "proxy" /\ last.access = "callable"
  /\ dest = "bigquery" \/ last.prop \notin LifecycleMethods

\* the connect of the wrapper fails: the static key is not JSON, the static
\* configuration has no oauth2 section, or the connections request fails
ConnectFails ==
  CASE dest = "bigquery" -> config.GOOGLE_SERVICE_ACCOUNT_KEY = KeyBad
    [] dest = "xero" -> config.oauth2 = V_undefined \/ last.env.connections = "reject"
    [] OTHER -> FALSE

\* C14: when connect or the action throws inside a proxied call, the proxy
\* logs the error once, re-throws that error and does not call disconnect;
\* if connect failed the action is never invoked, and if connect succeeded
\* the client handle is still non-null after the call
C14_ErrorPathKeepsConnection ==
  /\ (Wrapped /\ ConnectFails) => last.kind = "throw"
  /\ (Wrapped /\ last.kind = "throw") =>
       /\ last.logged = <<"Error occurred ===> ">>
       /\ \A i \in 1..Len(last.invoked) : last.invoked[i] # "disconnect"
       /\ IF ConnectFails
          THEN /\ last.invoked = <<"connect">>
               /\ last.val = CASE dest = "bigquery" -> SyntaxError
                               [] config.oauth2 = V_undefined -> TypeError
                               [] OTHER -> RemoteError("connections")
          ELSE /\ Len(last.invoked) = 2 /\ last.invoked[1] = "connect"
               /\ ~Falsy(client)
               /\ (dest = "bigquery" /\ last.prop = "testConnection") =>
                    last.val = RemoteError("query")
               /\ (dest = "bigquery" /\ last.prop = "deleteData"
                     /\ Falsy(last.payload.filters)) =>
                    last.val = Error("BigQuery DELETE must have a WHERE clause")
               /\ (dest = "xero" /\ last.payload = Str(<<"payroll", ".", "getEmployees">>)) =>
                    last.val = Error("API payroll for Xero not found")

\* a proxied Xero action that threw after the proxy's connect had succeeded
C14_Witness ==
  /\ dest = "xero" /\ Wrapped /\ ~ConnectFails
  /\ last.prop = "performAction"
  /\ last.kind = "throw"
  /\ last.invoked = <<"connect", "performAction">>
  /\ ~Falsy(client)

----------------------------------------------------------------------------
(* Calls in flight: the wrapper of a proxy, one step per await *)

\* the driver as call c finds it when it resumes
Here(c) == [calls[c].m EXCEPT !.client = client, !.tenantIds = tenantIds]

\* what a call has done, without the driver's fields
Own(m) == [m EXCEPT !.client = V_null, !.tenantIds = V_undefined]

RaceConfig ==
  IF dest = "bigquery" THEN [t |-> "config", GOOGLE_SERVICE_ACCOUNT_KEY |-> KeyA]
  ELSE [t |-> "config", XERO_CLIENT_ID |-> Str(<<"idA">>), oauth2 |-> OAuth2]

RacePayload ==
  IF dest = "bigquery"
  THEN [t |-> "insert", dataset |-> "ds", table |-> "tbl", data |-> "rows"]
  ELSE Str(<<"accounting", ".", "getAccounts">>)

RaceParams == Obj(<<<<"where", Str(<<"Status==ACTIVE">>)>>>>)

\* every remote request of a call in flight succeeds
RaceEnv ==
  IF dest = "bigquery"
  THEN [get |-> TRUE, insert |-> TRUE, meta |-> TRUE, update |-> TRUE, delete |-> TRUE,
        query |-> "ok", schema |-> TableSchema]
  ELSE [connections |-> "ok", tenants |-> [i \in 1..MaxTenants |-> TenantId(i)],
        query |-> "ok", outcome |-> [x \in Tenants |-> "ok"]]

InitRace ==
  /\ dest \in {"bigquery", "xero"}
  /\ mode = "proxy"
  /\ config = RaceConfig
  /\ client = IF dest = "bigquery" THEN V_null ELSE V_undefined
  /\ tenantIds = V_undefined
  /\ last = NoCall
  /\ calls = [c \in Calls |-> Idle]

\* the catch of the wrapper
Caught(m) == Own(Log(m, "Error occurred ===> "))

\* proxy.insertData(payload) up to `await driver.connect()`: connect has no
\* await of its own and has set this.client when its promise is awaited
BigQueryRace_connect(c) ==
  /\ dest = "bigquery" /\ calls[c].pc = "idle"
  /\ LET r == BQ_connect(Here(c), config, V_undefined)
     IN  /\ client' = r.client
         /\ calls' = [calls EXCEPT ![c].pc = "connected", ![c].m = Own(r)]
  /\ UNCHANGED <<dest, mode, config, tenantIds, last>>

\* from the resumption after connect to the first await of insertData: the
\* guard reads this.client, bqTable is taken from it, and the rest of the
\* method uses bqTable only
BigQueryRace_action(c) ==
  /\ dest = "bigquery" /\ calls[c].pc = "connected"
  /\ LET r == BQ_insertData(Here(c), RacePayload, RaceEnv)
     IN  calls' = IF r.kind = "throw"
                  THEN [calls EXCEPT ![c].pc = "failed", ![c].m = Caught(r),
                                     ![c].reads = <<client>>]
                  ELSE [calls EXCEPT ![c].pc = "get", ![c].pending = Own(r),
                                     ![c].m = Own(Enter(Here(c), "insertData")),
                                     ![c].reads = <<client>>]
  /\ UNCHANGED <<dest, mode, config, client, tenantIds, last>>

\* bqTable.get() or bqTable.insert() settles
BigQueryRace_settle(c) ==
  /\ dest = "bigquery" /\ calls[c].pc \in {"get", "insert"}
  /\ calls' = IF calls[c].pc = "get"
              THEN [calls EXCEPT ![c].pc = "insert"]
              ELSE [calls EXCEPT ![c].pc = "acted", ![c].m = calls[c].pending,
                                 ![c].pending = Idle.pending]
  /\ UNCHANGED <<dest, mode, config, client, tenantIds, last>>

\* the wrapper resumes with the result and calls driver.disconnect()
BigQueryRace_disconnect(c) ==
  /\ dest = "bigquery" /\ calls[c].pc = "acted"
  /\ LET r == BQ_disconnect(Here(c))
     IN  /\ client' = r.client
         /\ calls' = [calls EXCEPT ![c].pc = "done",
                                   ![c].m = Own([r EXCEPT !.val = calls[c].m.val])]
  /\ UNCHANGED <<dest, mode, config, tenantIds, last>>

\* proxy.performAction(payload, params) up to the await of the connections
\* request inside connect: this.client is set, this.tenantIds is not yet
XeroRace_connect(c) ==
  /\ dest = "xero" /\ calls[c].pc = "idle"
  /\ LET r == Xero_connect(Here(c), config, Or(config, RacePayload), RaceEnv)
     IN  /\ client' = r.client
         /\ calls' = [calls EXCEPT ![c].pc = "connecting", ![c].pending = r,
                                   ![c].m = Own([r EXCEPT !.kind = "return",
                                                          !.val = V_undefined])]
  /\ UNCHANGED <<dest, mode, config, tenantIds, last>>

\* the connections request settles: connect stores the tenant ids
XeroRace_connected(c) ==
  /\ dest = "xero" /\ calls[c].pc = "connecting"
  /\ tenantIds' = calls[c].pending.tenantIds
  /\ calls' = [calls EXCEPT ![c].pc = "connected", ![c].pending = Idle.pending]
  /\ UNCHANGED <<dest, mode, config, client, last>>

\* from the resumption after connect to the await of the first request:
\* the statements of performAction before the loop, then the loop over the
\* array that this.tenantIds holds now
XeroRace_action(c) ==
  /\ dest = "xero" /\ calls[c].pc = "connected"
  /\ LET before == Xero_performAction([Here(c) EXCEPT !.tenantIds = Arr(<<>>)],
                                      RacePayload, RaceParams, RaceEnv)
         method == Split(RacePayload.chars, ".")[2]
         r == Xero_iterate([before EXCEPT !.tenantIds = tenantIds], <<>>,
                           tenantIds.items, <<client>>, method, RaceParams)
     IN  calls' = IF before.kind = "throw"
                  THEN [calls EXCEPT ![c].pc = "failed", ![c].m = Caught(before),
                                     ![c].reads = <<client>>]
                  ELSE [calls EXCEPT ![c].pc = IF r.rest = <<>> THEN "acted" ELSE "tenant",
                                     ![c].m = Own(r.m), ![c].reads = r.reads,
                                     ![c].over = tenantIds.items,
                                     ![c].rest = r.rest, ![c].responses = r.responses]
  /\ UNCHANGED <<dest, mode, config, client, tenantIds, last>>

\* the request of the tenant in flight settles: its body is stored and the
\* loop goes on to the next await or to the return
XeroRace_settle(c) ==
  /\ dest = "xero" /\ calls[c].pc = "tenant"
  /\ LET k == calls[c]
         method == Split(RacePayload.chars, ".")[2]
         tenantId == Head(k.rest)
         r == Xero_iterate(Here(c), Assign(k.responses, tenantId, Body(method, tenantId)),
                           Tail(k.rest), k.reads, method, RaceParams)
     IN  calls' = [calls EXCEPT ![c].pc = IF r.rest = <<>> THEN "acted" ELSE "tenant",
                                ![c].m = Own(r.m), ![c].reads = r.reads,
                                ![c].rest = r.rest, ![c].responses = r.responses]
  /\ UNCHANGED <<dest, mode, config, client, tenantIds, last>>

\* the wrapper resumes with the responses and calls driver.disconnect()
XeroRace_disconnect(c) ==
  /\ dest = "xero" /\ calls[c].pc = "acted"
  /\ LET r == Xero_disconnect(Here(c))
     IN  /\ client' = r.client
         /\ tenantIds' = r.tenantIds
         /\ calls' = [calls EXCEPT ![c].pc = "done",
                                   ![c].m = Own([r EXCEPT !.val = calls[c].m.val])]
  /\ UNCHANGED <<dest, mode, config, last>>

NextRace ==
  \E c \in Calls :
    \/ BigQueryRace_connect(c)
    \/ BigQueryRace_action(c)
    \/ BigQueryRace_settle(c)
    \/ BigQueryRace_disconnect(c)
    \/ XeroRace_connect(c)
    \/ XeroRace_connected(c)
    \/ XeroRace_action(c)
    \/ XeroRace_settle(c)
    \/ XeroRace_disconnect(c)

SpecRace == InitRace /\ [][NextRace]_vars

\* call c is past the start of its action
Acting(c) == calls[c].reads # <<>>

\* the action of call c found this.client null at one of its reads
RanOnNull(c) == \E i \in 1..Len(calls[c].reads) : Falsy(calls[c].reads[i])

\* a call other than c has run the disconnect of its wrapper
OtherDisconnected(c) ==
  \E d \in Calls \ {c} :
    \E i \in 1..Len(calls[d].m.invoked) : calls[d].m.invoked[i] = "disconnect"

\* C15: concurrent calls through one proxy share the driver's client and
\* tenantIds fields.  A call whose own connect completed can find the
\* client null during its action, and only because another call's
\* disconnect ran in between; the BigQuery action then fails with the
\* 'not established' error, the Xero action fails with a TypeError when
\* the null is met before the loop and otherwise stores undefined for every
\* tenant whose iteration met it, the other tenants keeping their bodies
C15_DisconnectRacesAction ==
  \A c \in Calls :
    LET k == calls[c]
    IN  /\ RanOnNull(c) =>
             /\ k.m.invoked[1] = "connect" /\ Len(k.m.opened) = 1
             /\ OtherDisconnected(c)
        /\ (dest = "bigquery" /\ Acting(c)) =>
             /\ Falsy(k.reads[1]) <=> k.pc = "failed"
             /\ k.pc = "failed" =>
                  /\ k.m.kind = "throw" /\ k.m.val = NotEstablished
                  /\ k.m.logged = <<"Error occurred ===> ">>
        /\ (dest = "xero" /\ Acting(c)) =>
             /\ Falsy(k.reads[1]) <=> k.pc = "failed"
             /\ k.pc = "failed" => k.m.kind = "throw" /\ k.m.val = TypeError
        /\ (dest = "xero" /\ k.pc \in {"acted", "done"}) =>
             /\ k.m.kind = "return"
             /\ k.m.val = Obj(k.responses)
             /\ Len(k.responses) = Len(k.over)
             /\ \A i \in 1..Len(k.over) :
                  k.responses[i] =
                    <<k.over[i], IF Falsy(k.reads[i + 1]) THEN V_undefined
                                 ELSE Body("getAccounts", k.over[i])>>

\* a Xero call whose first tenant answered and whose remaining tenants met
\* the client another call's disconnect had nulled
C15_Witness ==
  \E c \in Calls :
    /\ dest = "xero" /\ calls[c].pc = "acted"
    /\ Len(calls[c].over) = MaxTenants
    /\ ~Falsy(calls[c].reads[2])
    /\ calls[c].responses[1][2] = Body("getAccounts", TenantId(1))
    /\ \A i \in 2..MaxTenants :
         Falsy(calls[c].reads[i + 1]) /\ calls[c].responses[i][2] = V_undefined
    /\ OtherDisconnected(c)

\* a BigQuery call whose connect succeeded and whose insertData found the
\* client another call's disconnect had nulled
C15_BigQueryWitness ==
  \E c \in Calls :
    /\ dest = "bigquery" /\ calls[c].pc = "failed"
    /\ calls[c].m.invoked = <<"connect", "insertData">>
    /\ calls[c].m.val = NotEstablished
    /\ OtherDisconnected(c)

====
